---- MODULE Spec2Model ----
(***************************************************************************)
(* A model of azfs.AzFileClient (src/azfs/az_file_client.py) and of the    *)
(* two storage backends it dispatches to (src/azfs/clients/blob_client.py, *)
(* src/azfs/clients/datalake_client.py).                                   *)
(*                                                                         *)
(* A path is a sequence of tokens: the three tokens of the host            *)
(* ("https://x", the backend marker, "core.windows.net") followed by the   *)
(* characters of "/<container>/<object path>", one character per token.    *)
(***************************************************************************)
EXTENDS Integers, Sequences, FiniteSets, TLC

VARIABLES store, op, arg, err, ret, out, calls, attrs, sessions, tasks

vars == <<store, op, arg, err, ret, out, calls, attrs, sessions, tasks>>

----------------------------------------------------------------------------
(* Bounds *)

\* most objects the two storage accounts hold together in Spec
MaxObjects == 2
\* longest object key (characters) listed to glob in SpecGlob
MaxGlobKeyLen == 5
\* longest object-path pattern (characters) handed to glob in SpecGlob
MaxGlobPatLen == 5

----------------------------------------------------------------------------
(* Strings *)

SeqsUpTo(S, n) == UNION {[1..k -> S] : k \in 0..n}

StartsWith(s, p) == Len(p) <= Len(s) /\ SubSeq(s, 1, Len(p)) = p

EndsWith(s, c) == Len(s) > 0 /\ s[Len(s)] = c

Contains(s, c) == \E i \in 1..Len(s) : s[i] = c

\* position of the first c in s at or after position from, 0 when there is none
IndexFrom(s, c, from) ==
  LET hits == {i \in from..Len(s) : s[i] = c}
  IN  IF hits = {} THEN 0 ELSE CHOOSE i \in hits : \A j \in hits : i <= j

\* s.endswith(suffix)
EndsWithSeq(s, suffix) ==
  Len(suffix) <= Len(s) /\ SubSeq(s, Len(s) - Len(suffix) + 1, Len(s)) = suffix

SetMax(S) == CHOOSE i \in S : \A j \in S : j <= i

Perms(S) ==
  {f \in [1..Cardinality(S) -> S] : \A i, j \in 1..Cardinality(S) : f[i] = f[j] => i = j}

----------------------------------------------------------------------------
(* Paths *)

\* the account kinds that store objects
Kinds == {"blob", "dfs"}

\* the account kinds a path decodes to
AccountKinds == Kinds \cup {"queue"}

Scheme == "https://x"

HostSuffix == "core.windows.net"

Container == "c"

Marker(kind) ==
  IF kind = "blob" THEN ".blob." ELSE IF kind = "dfs" THEN ".dfs." ELSE ".queue."

AccountUrl(kind) == <<Scheme, Marker(kind), HostSuffix>>

\* "https://x.<marker>.core.windows.net/c/<file_path>"
MkPath(kind, file_path) == AccountUrl(kind) \o <<"/", Container, "/">> \o file_path

\* BlobPathDecoder(path).get_with_url(): (url, account_kind, container, file_path)
Decode(path) ==
  LET slash == IndexFrom(path, "/", 5)
  IN  [url          |-> SubSeq(path, 1, 3),
       account_kind |-> IF path[2] = ".blob." THEN "blob"
                        ELSE IF path[2] = ".dfs." THEN "dfs" ELSE "queue",
       container    |-> IF slash = 0 THEN SubSeq(path, 5, Len(path))
                        ELSE SubSeq(path, 5, slash - 1),
       file_path    |-> IF slash = 0 THEN <<>> ELSE SubSeq(path, slash + 1, Len(path))]

----------------------------------------------------------------------------
(* Input domains *)

\* characters of an object key
KeyAlphabet == {"a", ".", "/"}

\* characters of a glob pattern's object path
PatAlphabet == {"a", ".", "/", "*"}

\* position i of k is one past the end of a segment
SegmentEnd(k, i) == i = Len(k) + 1 \/ (i <= Len(k) /\ k[i] = "/")

\* an object path has no empty segment
NoEmptySegment(k) ==
  /\ Len(k) > 0
  /\ k[1] # "/"
  /\ k[Len(k)] # "/"
  /\ \A i \in 1..(Len(k) - 1) : ~(k[i] = "/" /\ k[i + 1] = "/")

\* an object key has no empty segment and no segment `.` or `..`
ValidKey(k) ==
  /\ NoEmptySegment(k)
  /\ \A i \in 1..Len(k) :
       (k[i] = "." /\ (i = 1 \/ k[i - 1] = "/")) =>
         /\ ~SegmentEnd(k, i + 1)
         /\ ~(k[i + 1] = "." /\ SegmentEnd(k, i + 2))

\* keys of Spec: two objects of the container and two of its folder d
Keys == {<<"a">>, <<"b">>, <<"d", "/", "a">>, <<"d", "/", "b">>}

GlobKeys == {k \in SeqsUpTo(KeyAlphabet, MaxGlobKeyLen) : ValidKey(k)}

\* patterns of Spec: a key with any of its segments replaced by `*`
Patterns ==
  UNION {{[i \in 1..Len(k) |-> IF i \in S THEN "*" ELSE k[i]] :
            S \in SUBSET {i \in 1..Len(k) : k[i] # "/"}} : k \in Keys}

GlobPatterns == {p \in SeqsUpTo(PatAlphabet, MaxGlobPatLen) : NoEmptySegment(p)}

Data == {<<1>>, <<2>>}

\* what a backend keeps of an object: its bytes, its content type (None or set)
\* and whether its metadata carries hdi_isfolder; appended is what was appended
\* to it and not flushed yet
File(d) ==
  [data |-> d, content_type |-> "application/octet-stream", hdi_isfolder |-> FALSE,
   appended |-> <<>>]

Untyped(d) == [data |-> d, content_type |-> "None", hdi_isfolder |-> FALSE, appended |-> <<>>]

Folder == [data |-> <<>>, content_type |-> "None", hdi_isfolder |-> TRUE, appended |-> <<>>]

Objects == {File(d) : d \in Data} \cup {Untyped(d) : d \in Data} \cup {Folder}

EmptyStore == [k \in Kinds |-> {}]

\* an offset or a length that is not given (None)
NotGiven == 0 - 1

\* the callers that call the client at the same time in SpecRace
Callers == {"t1", "t2"}

\* a call a caller has not begun, or has taken the outcome of
NoTask ==
  [op |-> "none", path |-> <<>>, dst |-> <<>>, flag |-> FALSE, data |-> <<>>,
   pc |-> "none", steps |-> <<>>, err |-> "none"]

\* the arguments of a call; helper is the attribute a helper was called by and
\* self the client whose method it called
NoArg ==
  [path |-> <<>>, dst |-> <<>>, flag |-> FALSE, data |-> <<>>,
   offset |-> NotGiven, length |-> NotGiven, helper |-> "", self |-> ""]

----------------------------------------------------------------------------
(* Backends: AzBlobClient and AzDataLakeClient.  store[kind] is the set of *)
(* <<key, object>> pairs the storage account of that kind holds.           *)

\* AzfsClient.get_client(account_kind)
GetClient(account_kind) ==
  IF account_kind = "blob" THEN "AzBlobClient"
  ELSE IF account_kind = "dfs" THEN "AzDataLakeClient" ELSE "AzQueueClient"

\* one call of a backend method: the client it is made on, the method, the
\* path handed over, for ls the listing the backend replied and for put the
\* bytes handed over
CallWith(account_kind, method, path, reply, data) ==
  [client |-> GetClient(account_kind), method |-> method, path |-> path, reply |-> reply,
   data |-> data]

Call(account_kind, method, path, reply) == CallWith(account_kind, method, path, reply, <<>>)

Names(st, kind) == {e[1] : e \in st[kind]}

Has(st, kind, key) == key \in Names(st, kind)

Object(st, kind, key) == (CHOOSE e \in st[kind] : e[1] = key)[2]

StoreRemove(st, kind, key) == [st EXCEPT ![kind] = {e \in @ : e[1] # key}]

StorePut(st, kind, key, obj) ==
  [st EXCEPT ![kind] = {e \in @ : e[1] # key} \cup {<<key, obj>>}]

Size(st) == Cardinality(st["blob"]) + Cardinality(st["dfs"])

\* AzBlobClient._ls: list_blobs(name_starts_with=file_path)
BlobLs(st, file_path) == {k \in Names(st, "blob") : StartsWith(k, file_path)}

\* get_paths without recursive=True: the entries right below the folder
DataLakeLsNotRecursive(st, file_path) ==
  LET dir == IF EndsWith(file_path, "/") THEN SubSeq(file_path, 1, Len(file_path) - 1)
             ELSE file_path
  IN  {k \in Names(st, "dfs") :
         /\ dir = <<>> \/ StartsWith(k, dir \o <<"/">>)
         /\ IndexFrom(k, "/", Len(dir) + 2) = 0}

\* AzDataLakeClient._ls: get_paths(path=file_path, recursive=True)
DataLakeLs(st, file_path) ==
  LET dir == IF EndsWith(file_path, "/") THEN SubSeq(file_path, 1, Len(file_path) - 1)
             ELSE file_path
  IN  {k \in Names(st, "dfs") : dir = <<>> \/ StartsWith(k, dir \o <<"/">>)}

\* AzQueueClient._ls: what the queue client lists; one message waits in the queue
QueueLs == {<<"m">>}

\* ClientInterface.ls: the names the backend of account_kind lists, as a set;
\* the backend returns them in an order of its own
BackendLs(st, account_kind, file_path) ==
  IF account_kind = "blob" THEN BlobLs(st, file_path)
  ELSE IF account_kind = "dfs" THEN DataLakeLs(st, file_path)
  ELSE QueueLs

\* ClientInterface.info: get_blob_properties / get_file_properties raise
\* ResourceNotFoundError when nothing is stored at the path
BackendRaises(st, path) ==
  IF Has(st, Decode(path).account_kind, Decode(path).file_path) THEN "none"
  ELSE "ResourceNotFoundError"

\* except <handler>: does the handler catch an exception of class exc?
\* azure.core.exceptions.ResourceNotFoundError derives from HttpResponseError,
\* AzureError and Exception, not from IOError (OSError)
Catches(handler, exc) ==
  \/ handler = exc
  \/ handler = "Exception"

\* one call the backend makes on the storage SDK
SdkCall(call, data, offset, length) ==
  [call |-> call, data |-> data, offset |-> offset, length |-> length]

\* AzBlobClient._put uploading one byte less than it was given
BlobPutShort(data) == <<SdkCall("upload_blob", data, 0, Len(data) - 1)>>

\* AzBlobClient._put: upload_blob(data=data, length=len(data), overwrite=True)
BlobPutSteps(data) == <<SdkCall("upload_blob", data, 0, Len(data))>>

\* AzDataLakeClient._put with the flush ahead of the append
DataLakePutFlushFirst(data) ==
  <<SdkCall("create_file", <<>>, 0, 0),
    SdkCall("flush_data", <<>>, Len(data), 0),
    SdkCall("append_data", data, 0, Len(data))>>

\* AzDataLakeClient._put: create_file(), append_data(data=data, offset=0,
\* length=len(data)), flush_data(len(data))
DataLakePutSteps(data) ==
  <<SdkCall("create_file", <<>>, 0, 0),
    SdkCall("append_data", data, 0, Len(data)),
    SdkCall("flush_data", <<>>, Len(data), 0)>>

PutSteps(account_kind, data) ==
  IF account_kind = "blob" THEN BlobPutSteps(data) ELSE DataLakePutSteps(data)

\* what the storage service answers to one SDK call on the object at key: an
\* append or a flush needs the file, an append starts where the file ends and
\* a flush names the length the file has once flushed
SdkRaises(st, kind, key, c) ==
  IF c.call \in {"append_data", "flush_data"} /\ ~Has(st, kind, key)
  THEN "ResourceNotFoundError"
  ELSE IF /\ c.call \in {"append_data", "flush_data"}
          /\ c.offset # Len(Object(st, kind, key).data) + Len(Object(st, kind, key).appended)
  THEN "HttpResponseError"
  ELSE "none"

\* the storage account after one SDK call on the object at key
SdkApply(st, kind, key, c) ==
  IF c.call = "upload_blob" THEN StorePut(st, kind, key, File(SubSeq(c.data, 1, c.length)))
  ELSE IF c.call = "create_file" THEN StorePut(st, kind, key, File(<<>>))
  ELSE IF c.call = "append_data"
  THEN StorePut(st, kind, key,
                [Object(st, kind, key) EXCEPT !.appended = @ \o SubSeq(c.data, 1, c.length)])
  ELSE IF c.call = "flush_data"
  THEN StorePut(st, kind, key,
                [Object(st, kind, key) EXCEPT !.data = @ \o Object(st, kind, key).appended,
                                              !.appended = <<>>])
  ELSE st

RECURSIVE RunSdk(_, _, _, _)
\* the SDK calls of one backend method, made in order up to the first that raises
RunSdk(st, kind, key, steps) ==
  IF steps = <<>> THEN [store |-> st, err |-> "none"]
  ELSE IF SdkRaises(st, kind, key, Head(steps)) # "none"
  THEN [store |-> st, err |-> SdkRaises(st, kind, key, Head(steps))]
  ELSE RunSdk(SdkApply(st, kind, key, Head(steps)), kind, key, Tail(steps))

\* _get_service_client: the service client class the backend constructs
ServiceClient(client) ==
  IF client = "AzBlobClient" THEN "BlobServiceClient"
  ELSE IF client = "AzDataLakeClient" THEN "DataLakeServiceClient"
  ELSE "QueueServiceClient"

\* _get_file_client / _get_container_client: a service client is constructed
\* and asked for the client of the file (of the container, to list)
ClientSteps(client, method) ==
  <<SdkCall(ServiceClient(client), <<>>, 0, 0),
    SdkCall(IF client = "AzBlobClient"
            THEN (IF method = "ls" THEN "get_container_client" ELSE "get_blob_client")
            ELSE IF client = "AzDataLakeClient"
            THEN (IF method = "ls" THEN "get_file_system_client" ELSE "get_file_client")
            ELSE "get_queue_client", <<>>, 0, 0)>>

\* _ls, _get, _put, _info, _rm: the SDK calls made on the client of the file
MethodSteps(client, method, data) ==
  IF method = "put"
  THEN PutSteps(IF client = "AzBlobClient" THEN "blob" ELSE "dfs", data)
  ELSE IF client = "AzBlobClient"
  THEN <<SdkCall(IF method = "ls" THEN "list_blobs"
                 ELSE IF method = "get" THEN "download_blob"
                 ELSE IF method = "info" THEN "get_blob_properties"
                 ELSE "delete_blob", <<>>, 0, 0)>>
  ELSE IF client = "AzDataLakeClient"
  THEN <<SdkCall(IF method = "ls" THEN "get_paths"
                 ELSE IF method = "get" THEN "download_file"
                 ELSE IF method = "info" THEN "get_file_properties"
                 ELSE "delete_file", <<>>, 0, 0)>>
  ELSE <<SdkCall("peek_messages", <<>>, 0, 0)>>

\* the SDK calls one call of a backend method makes, in order
SdkOf(c) == ClientSteps(c.client, c.method) \o MethodSteps(c.client, c.method, c.data)

RECURSIVE SdkTrace(_)
\* the SDK calls a sequence of backend calls makes, in order
SdkTrace(cs) == IF cs = <<>> THEN <<>> ELSE SdkOf(Head(cs)) \o SdkTrace(Tail(cs))

\* AzBlobClient._get / AzDataLakeClient._get: download_blob().readall() /
\* download_file().readall(); offset and length arrive in **kwargs and are
\* handed to nothing
BackendGet(st, account_kind, file_path, offset, length) ==
  Object(st, account_kind, file_path).data

----------------------------------------------------------------------------
(* AzFileClient: pure parts *)

\* gzip.compress(d): the magic number, the deflated bytes (here d as it is)
\* and the trailer (here the sum of the bytes, for the CRC, and the length)
GzipMagic == <<31, 139>>

RECURSIVE ByteSum(_)
ByteSum(d) == IF d = <<>> THEN 0 ELSE (Head(d) + ByteSum(Tail(d))) % 256

Gzip(d) == GzipMagic \o d \o <<ByteSum(d), Len(d)>>

GzipBody(b) == SubSeq(b, 3, Len(b) - 2)

\* gzip.decompress(b) raises BadGzipFile (an OSError) on bytes that are no gzip
IsGzip(b) ==
  /\ Len(b) >= 4
  /\ SubSeq(b, 1, 2) = GzipMagic
  /\ b[Len(b) - 1] = ByteSum(GzipBody(b))
  /\ b[Len(b)] = Len(GzipBody(b))

\* gzip.decompress(b)
Gunzip(b) == GzipBody(b)

\* _get decompressing no path
IsGzipPathNever(path) == FALSE

\* _get: path.endswith(".gz")
IsGzipPath(path) == EndsWithSeq(path, <<".", "g", "z">>)

\* the "type" AzFileClient.info derives from the properties of an object
InfoType(obj) ==
  IF obj.hdi_isfolder THEN "directory"
  ELSE IF obj.content_type # "None" THEN "file"
  ELSE ""

\* ls_filter: the name of one listed entry relative to file_path, collapsed to
\* its first segment plus "/" when the entry lies deeper
RelativeName(f, file_path) ==
  LET rest  == IF StartsWith(f, file_path) THEN SubSeq(f, Len(file_path) + 1, Len(f)) ELSE f
      rel   == IF Len(rest) > 0 /\ rest[1] = "/" THEN Tail(rest) ELSE rest
      slash == IndexFrom(rel, "/", 1)
  IN  IF slash = 0 THEN rel ELSE SubSeq(rel, 1, slash)

RECURSIVE Dedup(_)
\* keeps the first occurrence of every element
Dedup(s) ==
  IF s = <<>> THEN <<>>
  ELSE LET init == Dedup(SubSeq(s, 1, Len(s) - 1))
       IN  IF \E i \in 1..Len(init) : init[i] = s[Len(s)] THEN init
           ELSE Append(init, s[Len(s)])

\* ls_filter(file_path_list, file_path)
ls_filter(file_path_list, file_path) ==
  Dedup([i \in 1..Len(file_path_list) |-> RelativeName(file_path_list[i], file_path)])

\* ls appending "/" to the path whatever its end
WithSlashAlways(path) == Append(path, "/")

\* ls: path if path.endswith("/") else f"{path}/"
WithSlash(path) == IF EndsWith(path, "/") THEN path ELSE Append(path, "/")

\* ls: [f"{path}{f}" for f in file_name_list]
AttachPrefix(path, file_name_list) ==
  [i \in 1..Len(file_name_list) |-> WithSlash(path) \o file_name_list[i]]

\* the root folder pattern with `*` left out of the excluded class: [^.]+
RootFolderEndsWithStar(file_path) ==
  {i \in 1..(Len(file_path) - 1) :
     /\ \A j \in 1..i : file_path[j] # "."
     /\ file_path[i + 1] = "/"}

\* glob: re.match(r"(?P<root_folder>[^\*.]+)/(?P<folders>.*)", file_path);
\* the ends of the candidate root folders: a prefix free of `*` and `.`
\* (it may hold `/`) that a `/` follows
RootFolderEnds(file_path) ==
  {i \in 1..(Len(file_path) - 1) :
     /\ \A j \in 1..i : file_path[j] \notin {"*", "."}
     /\ file_path[i + 1] = "/"}

RootFolderMatches(file_path) == RootFolderEnds(file_path) # {}

\* the group root_folder: `+` is greedy, so the longest candidate
RootFolder(file_path) == SubSeq(file_path, 1, SetMax(RootFolderEnds(file_path)))

\* the class `[^/]` a `*` of the pattern is replaced by
StarClass(c) == c # "/"

\* what a `.` of the pattern matches once the pattern is compiled as a regular
\* expression: any character (but a newline)
DotClass(c) == TRUE

RECURSIVE ReMatch(_, _)
\* glob: re.compile(pattern_path.replace('*', '([^/])*?') + "$").match(f)
ReMatch(pattern, f) ==
  IF pattern = <<>> THEN f = <<>>
  ELSE IF Head(pattern) = "*"
       THEN \/ ReMatch(Tail(pattern), f)
            \/ f # <<>> /\ StarClass(Head(f)) /\ ReMatch(pattern, Tail(f))
       ELSE /\ f # <<>>
            /\ \/ Head(pattern) = Head(f)
               \/ Head(pattern) = "." /\ DotClass(Head(f))
            /\ ReMatch(Tail(pattern), Tail(f))

\* glob: the listing prefixed by base_path and filtered by the compiled pattern
GlobFilter(pattern_path, base_path, file_list) ==
  SelectSeq([i \in 1..Len(file_list) |-> base_path \o file_list[i]],
            LAMBDA f : ReMatch(pattern_path, f))

----------------------------------------------------------------------------
(* AzContextManager: the helpers AzFileClient registers, and what attach   *)
(* and detach make of the attributes of pandas (pd) and pd.DataFrame.      *)
(* attrs[name] is the attribute called name: not set yet, None, or the     *)
(* function that calls a method of a client.                               *)

\* _az_context_manager.register_list, in the order of the decorators
register_list ==
  << [assign_as |-> "read_csv_az",     assign_to |-> "pd",           function |-> "read_csv"],
     [assign_as |-> "read_table_az",   assign_to |-> "pd",           function |-> "read_table"],
     [assign_as |-> "read_pickle_az",  assign_to |-> "pd",           function |-> "read_pickle"],
     [assign_as |-> "read_parquet_az", assign_to |-> "pd",           function |-> "read_parquet"],
     [assign_as |-> "to_csv_az",       assign_to |-> "pd.DataFrame", function |-> "write_csv"],
     [assign_as |-> "to_table_az",     assign_to |-> "pd.DataFrame", function |-> "write_table"],
     [assign_as |-> "to_pickle_az",    assign_to |-> "pd.DataFrame", function |-> "write_pickle"],
     [assign_as |-> "to_parquet_az",   assign_to |-> "pd.DataFrame", function |-> "write_parquet"] >>

Helpers == {register_list[i].assign_as : i \in DOMAIN register_list}

\* the entry of register_list assigned as name
Registered(name) == register_list[CHOOSE i \in DOMAIN register_list :
                                    register_list[i].assign_as = name]

\* an attribute nobody has set
Unset == [state |-> "unset", client |-> "", method |-> ""]

\* an attribute set to None
NoneAttr == [state |-> "None", client |-> "", method |-> ""]

\* wrapper(class_instance=client): new_function, which calls
\* getattr(class_instance, function.__name__)
Wrapper(f, client) == [state |-> "function", client |-> client, method |-> f.function]

\* AzContextManager.attach(client): for f in register_list:
\* setattr(f['assign_to'], f['assign_as'], f['function'](class_instance=client))
Attach(at, client) ==
  [name \in DOMAIN at |->
     IF name \in Helpers THEN Wrapper(Registered(name), client) ELSE at[name]]

\* AzContextManager.detach(): for f in register_list:
\* setattr(f['assign_to'], f['assign_as'], None)
Detach(at) == [name \in DOMAIN at |-> IF name \in Helpers THEN NoneAttr ELSE at[name]]

----------------------------------------------------------------------------
(* AzFileClient: operations.  One action is one call; it leaves the call   *)
(* (op, arg), its outcome (err: the exception raised or "none"; ret: the   *)
(* value returned; out: the list or bytes returned) and the backend calls  *)
(* it made, in order (calls).  tasks[t] is the call caller t is in the     *)
(* middle of, where calls of several callers run at the same time.        *)

\* the outcome of a call
Outcome(o, a, e, r, t, c) ==
  /\ op' = o
  /\ arg' = a
  /\ err' = e
  /\ ret' = r
  /\ out' = t
  /\ calls' = c

\* the outcome of a call that neither enters nor leaves a session
Returns(o, a, e, r, t, c) ==
  /\ Outcome(o, a, e, r, t, c)
  /\ UNCHANGED <<attrs, sessions, tasks>>

OnePath(path) == [NoArg EXCEPT !.path = path]

\* AzFileClient.info
Info(path) ==
  LET d == Decode(path)
      c == <<Call(d.account_kind, "info", path, <<>>)>>
  IN  /\ IF BackendRaises(store, path) # "none"
         THEN Returns("info", OnePath(path), BackendRaises(store, path), "None", <<>>, c)
         ELSE Returns("info", OnePath(path), "none",
                      InfoType(Object(store, d.account_kind, d.file_path)), <<>>, c)
      /\ UNCHANGED store

\* exists taking every outcome of info for success
ExistsValueAlways(st, path) == "True"

\* AzFileClient.exists: try info / except ResourceNotFoundError
ExistsValue(st, path) ==
  IF BackendRaises(st, path) = "none" THEN "True"
  ELSE IF Catches("ResourceNotFoundError", BackendRaises(st, path)) THEN "False"
  ELSE "None"

Exists(path) ==
  /\ Returns("exists", OnePath(path), "none", ExistsValue(store, path), <<>>,
             <<Call(Decode(path).account_kind, "info", path, <<>>)>>)
  /\ UNCHANGED store

\* AzFileClient.isdir / isfile: try info(path)["type"] == type / except IOError
IsType(name, type, path) ==
  LET d == Decode(path)
      c == <<Call(d.account_kind, "info", path, <<>>)>>
      e == BackendRaises(store, path)
  IN  /\ IF e = "none"
         THEN Returns(name, OnePath(path), "none",
                      IF InfoType(Object(store, d.account_kind, d.file_path)) = type
                      THEN "True" ELSE "False", <<>>, c)
         ELSE IF Catches("IOError", e)
         THEN Returns(name, OnePath(path), "none", "False", <<>>, c)
         ELSE Returns(name, OnePath(path), e, "None", <<>>, c)
      /\ UNCHANGED store

IsDir(path) == IsType("isdir", "directory", path)

IsFile(path) == IsType("isfile", "file", path)

\* AzFileClient._get as a function of the stored objects: the exception raised
\* (or "none") and the bytes returned
GetOutcome(st, path, offset, length) ==
  LET d          == Decode(path)
      file_bytes == BackendGet(st, d.account_kind, d.file_path, offset, length)
  IN  IF BackendRaises(st, path) # "none"
      THEN [err |-> BackendRaises(st, path), bytes |-> <<>>]
      ELSE IF IsGzipPath(path)
      THEN IF IsGzip(file_bytes) THEN [err |-> "none", bytes |-> Gunzip(file_bytes)]
           ELSE [err |-> "BadGzipFile", bytes |-> <<>>]
      ELSE [err |-> "none", bytes |-> file_bytes]

\* AzFileClient._get (get, download)
Get(path, offset, length) ==
  LET d == Decode(path)
      a == [OnePath(path) EXCEPT !.offset = offset, !.length = length]
      g == GetOutcome(store, path, offset, length)
  IN  /\ Returns("get", a, g.err, "None", g.bytes, <<Call(d.account_kind, "get", path, <<>>)>>)
      /\ UNCHANGED store

\* AzFileClient._put (put, upload)
Put(path, data) ==
  LET d == Decode(path)
      r == RunSdk(store, d.account_kind, d.file_path, PutSteps(d.account_kind, data))
  IN  /\ Has(store, d.account_kind, d.file_path) \/ Size(store) < MaxObjects
      /\ store' = r.store
      /\ Returns("put", [OnePath(path) EXCEPT !.data = data], r.err,
                 IF r.err = "none" THEN "True" ELSE "None", <<>>,
                 <<CallWith(d.account_kind, "put", path, <<>>, data)>>)

\* rm turning the backend's not-found error into False
RmReturnsFalse(path) ==
  LET d == Decode(path)
      c == <<Call(d.account_kind, "rm", path, <<>>)>>
  IN  IF BackendRaises(store, path) # "none"
      THEN /\ Returns("rm", OnePath(path), "none", "False", <<>>, c)
           /\ UNCHANGED store
      ELSE /\ Returns("rm", OnePath(path), "none", "True", <<>>, c)
           /\ store' = StoreRemove(store, d.account_kind, d.file_path)

\* rm sent to the blob client whatever the path
RmOnBlobClient(path) ==
  LET d == Decode(path)
      c == <<Call("blob", "rm", path, <<>>)>>
  IN  IF BackendRaises(store, path) # "none"
      THEN /\ Returns("rm", OnePath(path), BackendRaises(store, path), "None", <<>>, c)
           /\ UNCHANGED store
      ELSE /\ Returns("rm", OnePath(path), "none", "True", <<>>, c)
           /\ store' = StoreRemove(store, d.account_kind, d.file_path)

\* AzFileClient.rm
Rm(path) ==
  LET d == Decode(path)
      c == <<Call(d.account_kind, "rm", path, <<>>)>>
  IN  IF BackendRaises(store, path) # "none"
      THEN /\ Returns("rm", OnePath(path), BackendRaises(store, path), "None", <<>>, c)
           /\ UNCHANGED store
      ELSE /\ Returns("rm", OnePath(path), "none", "True", <<>>, c)
           /\ store' = StoreRemove(store, d.account_kind, d.file_path)

\* cp that looks for an object at dst_path only when overwrite is set
CpCheckInverted(src_path, dst_path, overwrite) ==
  LET a      == [NoArg EXCEPT !.path = src_path, !.dst = dst_path, !.flag = overwrite]
      s      == Decode(src_path)
      d      == Decode(dst_path)
      check  == IF ~overwrite THEN <<>> ELSE <<Call(d.account_kind, "info", dst_path, <<>>)>>
      get    == <<Call(s.account_kind, "get", src_path, <<>>)>>
      data   == GetOutcome(store, src_path, NotGiven, NotGiven)
      put    == <<CallWith(d.account_kind, "put", dst_path, <<>>, data.bytes)>>
      r      == RunSdk(store, d.account_kind, d.file_path,
                       PutSteps(d.account_kind, data.bytes))
  IN  IF src_path = dst_path
      THEN /\ Returns("cp", a, "AzfsInputError", "None", <<>>, <<>>)
           /\ UNCHANGED store
      ELSE IF overwrite /\ ExistsValue(store, dst_path) = "True"
      THEN /\ Returns("cp", a, "AzfsInputError", "None", <<>>, check)
           /\ UNCHANGED store
      ELSE IF data.err # "none"
      THEN /\ Returns("cp", a, data.err, "None", <<>>, check \o get)
           /\ UNCHANGED store
      ELSE /\ Has(store, d.account_kind, d.file_path) \/ Size(store) < MaxObjects
           /\ store' = r.store
           /\ Returns("cp", a, r.err, IF r.err = "none" THEN "True" ELSE "None", <<>>,
                      check \o get \o put)

\* AzFileClient.cp
Cp(src_path, dst_path, overwrite) ==
  LET a      == [NoArg EXCEPT !.path = src_path, !.dst = dst_path, !.flag = overwrite]
      s      == Decode(src_path)
      d      == Decode(dst_path)
      check  == IF overwrite THEN <<>> ELSE <<Call(d.account_kind, "info", dst_path, <<>>)>>
      get    == <<Call(s.account_kind, "get", src_path, <<>>)>>
      data   == GetOutcome(store, src_path, NotGiven, NotGiven)
      put    == <<CallWith(d.account_kind, "put", dst_path, <<>>, data.bytes)>>
      r      == RunSdk(store, d.account_kind, d.file_path,
                       PutSteps(d.account_kind, data.bytes))
  IN  IF src_path = dst_path
      THEN /\ Returns("cp", a, "AzfsInputError", "None", <<>>, <<>>)
           /\ UNCHANGED store
      ELSE IF (~overwrite) /\ ExistsValue(store, dst_path) = "True"
      THEN /\ Returns("cp", a, "AzfsInputError", "None", <<>>, check)
           /\ UNCHANGED store
      ELSE IF data.err # "none"
      THEN /\ Returns("cp", a, data.err, "None", <<>>, check \o get)
           /\ UNCHANGED store
      ELSE /\ Has(store, d.account_kind, d.file_path) \/ Size(store) < MaxObjects
           /\ store' = r.store
           /\ Returns("cp", a, r.err, IF r.err = "none" THEN "True" ELSE "None", <<>>,
                      check \o get \o put)

\* ls returning the backend listing as it is, without ls_filter
LsUnfiltered(path, attach_prefix) ==
  LET d == Decode(path)
      a == [OnePath(path) EXCEPT !.flag = attach_prefix]
  IN  /\ \E file_list \in Perms(BackendLs(store, d.account_kind, d.file_path)) :
           Returns("ls", a, "none", "None",
                   IF attach_prefix THEN AttachPrefix(path, file_list) ELSE file_list,
                   <<Call(d.account_kind, "ls", path, file_list)>>)
      /\ UNCHANGED store

\* AzFileClient.ls
Ls(path, attach_prefix) ==
  LET d == Decode(path)
      a == [OnePath(path) EXCEPT !.flag = attach_prefix]
  IN  /\ \E file_list \in Perms(BackendLs(store, d.account_kind, d.file_path)) :
           Returns("ls", a, "none", "None",
                   IF d.account_kind \notin {"dfs", "blob"} THEN file_list
                   ELSE IF attach_prefix
                   THEN AttachPrefix(path, ls_filter(file_list, d.file_path))
                   ELSE ls_filter(file_list, d.file_path),
                   <<Call(d.account_kind, "ls", path, file_list)>>)
      /\ UNCHANGED store

\* glob without its check for a `*`
HasWildcardUnchecked(pattern_path) == TRUE

\* glob: "*" in pattern_path
HasWildcard(pattern_path) == Contains(pattern_path, "*")

\* glob filtering the listing of every kind of account
GlobSupportedAlways(account_kind) == TRUE

\* glob: account_kind in ["dfs", "blob"]
GlobSupported(account_kind) == account_kind \in {"dfs", "blob"}

\* glob asking the backend for the listing before it looks at the pattern
GlobListsFirst(pattern_path) ==
  LET d         == Decode(pattern_path)
      base_path == d.url \o <<"/">> \o d.container \o <<"/">>
      root      == IF RootFolderMatches(d.file_path) THEN RootFolder(d.file_path) ELSE <<>>
  IN  /\ \E file_list \in Perms(BackendLs(store, d.account_kind, root)) :
           IF ~HasWildcard(pattern_path) \/ ~RootFolderMatches(d.file_path)
           THEN Returns("glob", OnePath(pattern_path), "AzfsInputError", "None", <<>>,
                        <<Call(d.account_kind, "ls", base_path, file_list)>>)
           ELSE IF GlobSupported(d.account_kind)
           THEN Returns("glob", OnePath(pattern_path), "none", "None",
                        GlobFilter(pattern_path, base_path, file_list),
                        <<Call(d.account_kind, "ls", base_path, file_list)>>)
           ELSE Returns("glob", OnePath(pattern_path), "NotImplementedError", "None", <<>>,
                        <<Call(d.account_kind, "ls", base_path, file_list)>>)
      /\ UNCHANGED store

\* AzFileClient.glob
Glob(pattern_path) ==
  LET d         == Decode(pattern_path)
      base_path == d.url \o <<"/">> \o d.container \o <<"/">>
  IN  /\ IF ~HasWildcard(pattern_path)
         THEN Returns("glob", OnePath(pattern_path), "AzfsInputError", "None", <<>>, <<>>)
         ELSE IF ~RootFolderMatches(d.file_path)
         THEN Returns("glob", OnePath(pattern_path), "AzfsInputError", "None", <<>>, <<>>)
         ELSE \E file_list \in Perms(BackendLs(store, d.account_kind, RootFolder(d.file_path))) :
                IF GlobSupported(d.account_kind)
                THEN Returns("glob", OnePath(pattern_path), "none", "None",
                             GlobFilter(pattern_path, base_path, file_list),
                             <<Call(d.account_kind, "ls", base_path, file_list)>>)
                ELSE Returns("glob", OnePath(pattern_path), "NotImplementedError", "None", <<>>,
                             <<Call(d.account_kind, "ls", base_path, file_list)>>)
      /\ UNCHANGED store

----------------------------------------------------------------------------
(* Spec: the client as a state machine over the two storage accounts *)

Paths == {MkPath(kind, k) : kind \in Kinds, k \in Keys}

\* the folders the keys lie in
Folders == UNION {{SubSeq(k, 1, i - 1) : i \in {j \in DOMAIN k : k[j] = "/"}} : k \in Keys}

\* what ls is asked to list: the container, with and without a closing `/`,
\* and every key and folder, with and without a closing `/`
LsPaths ==
  {AccountUrl(kind) \o <<"/", Container>> : kind \in Kinds}
    \cup {MkPath(kind, <<>>) : kind \in Kinds}
    \cup {MkPath(kind, k) : kind \in Kinds, k \in Keys \cup Folders}
    \cup {MkPath(kind, Append(k, "/")) : kind \in Kinds, k \in Keys \cup Folders}

\* the storage accounts hold at most one object before the first call
InitStores ==
  {EmptyStore} \cup
  {[EmptyStore EXCEPT ![kind] = {<<k, o>>}] : kind \in Kinds, k \in Keys, o \in Objects}

Init ==
  /\ store \in InitStores
  /\ op = "idle"
  /\ arg = NoArg
  /\ err = "none"
  /\ ret = "None"
  /\ out = <<>>
  /\ calls = <<>>
  /\ attrs = [name \in Helpers |-> Unset]
  /\ sessions = <<>>
  /\ tasks = [t \in Callers |-> NoTask]

\* no call is in progress: the client is called by one caller, one call at a time
Idle == op = "idle"

\* the caller takes the outcome of the call it made
Return ==
  /\ op # "idle"
  /\ Returns("idle", NoArg, "none", "None", <<>>, <<>>)
  /\ UNCHANGED store

DoInfo == Idle /\ \E p \in Paths : Info(p)

DoExists == Idle /\ \E p \in Paths : Exists(p)

DoIsDir == Idle /\ \E p \in Paths : IsDir(p)

DoIsFile == Idle /\ \E p \in Paths : IsFile(p)

DoGet == Idle /\ \E p \in Paths : Get(p, NotGiven, NotGiven)

DoPut == Idle /\ \E p \in Paths, data \in Data : Put(p, data)

DoRm == Idle /\ \E p \in Paths : Rm(p)

DoCp == Idle /\ \E s \in Paths, d \in Paths, overwrite \in BOOLEAN : Cp(s, d, overwrite)

DoLs == Idle /\ \E p \in LsPaths, attach_prefix \in BOOLEAN : Ls(p, attach_prefix)

DoGlob == Idle /\ \E kind \in AccountKinds, p \in Patterns : Glob(MkPath(kind, p))

Next ==
  \/ DoInfo
  \/ DoExists
  \/ DoIsDir
  \/ DoIsFile
  \/ DoGet
  \/ DoPut
  \/ DoRm
  \/ DoCp
  \/ DoLs
  \/ DoGlob
  \/ Return

Spec == Init /\ [][Next]_vars

----------------------------------------------------------------------------
(* SpecGlob: glob as a function of the pattern and of one listed object.   *)
(* Each storage account holds one object, under the same key; every        *)
(* pattern of up to MaxGlobPatLen characters is globbed on each kind.      *)

InitGlob ==
  /\ store \in {[kind \in Kinds |-> {<<k, File(<<1>>)>>}] : k \in GlobKeys}
  /\ op = "idle"
  /\ arg = NoArg
  /\ err = "none"
  /\ ret = "None"
  /\ out = <<>>
  /\ calls = <<>>
  /\ attrs = [name \in Helpers |-> Unset]
  /\ sessions = <<>>
  /\ tasks = [t \in Callers |-> NoTask]

GlobAny == Idle /\ \E kind \in Kinds, p \in GlobPatterns : Glob(MkPath(kind, p))

NextGlob == GlobAny \/ Return

SpecGlob == InitGlob /\ [][NextGlob]_vars

----------------------------------------------------------------------------
(* SpecData: put, get, cp and rm of byte payloads, gzip members among them, *)
(* on paths that end in `.gz` and paths that do not.                        *)

\* most bytes a get is asked to skip or to read
MaxRead == 2

DataKeys == {<<"a">>, <<"a", ".", "g", "z">>}

DataPaths == {MkPath(kind, k) : kind \in Kinds, k \in DataKeys}

Payloads == {<<>>, <<1>>, <<1, 2>>, Gzip(<<1>>)}

Ranges == {NotGiven} \cup (0..MaxRead)

InitData ==
  /\ store \in {EmptyStore} \cup
               {[EmptyStore EXCEPT ![kind] = {<<k, o>>}] :
                  kind \in Kinds, k \in DataKeys,
                  o \in {File(d) : d \in Payloads} \cup {Untyped(d) : d \in Payloads}}
  /\ op = "idle"
  /\ arg = NoArg
  /\ err = "none"
  /\ ret = "None"
  /\ out = <<>>
  /\ calls = <<>>
  /\ attrs = [name \in Helpers |-> Unset]
  /\ sessions = <<>>
  /\ tasks = [t \in Callers |-> NoTask]

GetData == Idle /\ \E p \in DataPaths, offset \in Ranges, length \in Ranges : Get(p, offset, length)

PutData == Idle /\ \E p \in DataPaths, data \in Payloads : Put(p, data)

CpData == Idle /\ \E s \in DataPaths, d \in DataPaths, overwrite \in BOOLEAN : Cp(s, d, overwrite)

RmData == Idle /\ \E p \in DataPaths : Rm(p)

NextData == GetData \/ PutData \/ CpData \/ RmData \/ Return

SpecData == InitData /\ [][NextData]_vars

----------------------------------------------------------------------------
(* SpecSession: `with client:` sessions of two clients, nested or           *)
(* interleaved, and calls of the helpers inside and outside of them.        *)

\* most sessions open at a time
MaxSessions == 2

Clients == {"azc1", "azc2"}

InitSession ==
  /\ store = EmptyStore
  /\ op = "idle"
  /\ arg = NoArg
  /\ err = "none"
  /\ ret = "None"
  /\ out = <<>>
  /\ calls = <<>>
  /\ attrs = [name \in Helpers |-> Unset]
  /\ sessions = <<>>
  /\ tasks = [t \in Callers |-> NoTask]

\* AzFileClient.__enter__: a `with client:` block is entered
Enter(client) ==
  /\ Idle
  /\ Len(sessions) < MaxSessions
  /\ sessions' = Append(sessions, client)
  /\ attrs' = Attach(attrs, client)
  /\ Outcome("__enter__", [NoArg EXCEPT !.self = client], "none", client, <<>>, <<>>)
  /\ UNCHANGED <<store, tasks>>

\* AzFileClient.__exit__: the `with` block of the i-th open session is left,
\* at its end (exec_type is None) or by an exception, which __exit__ lets pass
Exit(i, exec_type) ==
  /\ Idle
  /\ i \in DOMAIN sessions
  /\ sessions' = SubSeq(sessions, 1, i - 1) \o SubSeq(sessions, i + 1, Len(sessions))
  /\ attrs' = Detach(attrs)
  /\ Outcome("__exit__", [NoArg EXCEPT !.self = sessions[i]],
             IF exec_type = "None" THEN "none" ELSE exec_type, "None", <<>>, <<>>)
  /\ UNCHANGED <<store, tasks>>

\* pd.<name>(...) or df.<name>(...): new_function calls the method of the
\* client it was made for; None is not callable, an attribute never set is
\* not there
CallHelper(name) ==
  /\ Idle
  /\ IF attrs[name].state = "function"
     THEN Outcome(attrs[name].method,
                  [NoArg EXCEPT !.helper = name, !.self = attrs[name].client],
                  "none", "None", <<>>, <<>>)
     ELSE Outcome("call", [NoArg EXCEPT !.helper = name],
                  IF attrs[name].state = "None" THEN "TypeError" ELSE "AttributeError",
                  "None", <<>>, <<>>)
  /\ UNCHANGED <<store, attrs, sessions, tasks>>

DoEnter == \E client \in Clients : Enter(client)

DoExit == \E i \in 1..MaxSessions, exec_type \in {"None", "Exception"} : Exit(i, exec_type)

DoCallHelper == \E name \in Helpers : CallHelper(name)

NextSession == DoEnter \/ DoExit \/ DoCallHelper \/ Return

SpecSession == InitSession /\ [][NextSession]_vars

----------------------------------------------------------------------------
(* SpecRead: azc.read(mp=...).csv / .parquet / .pickle over no path, one    *)
(* path, a list of paths or a pattern.  A DataFrame is the sequence of its  *)
(* rows.                                                                    *)

\* the longest list of paths read
MaxPaths == 2

\* the path argument of read: None, a str or a list of str
NonePath == [type |-> "None", value |-> <<>>]

StrPath(p) == [type |-> "str", value |-> p]

ListPath(ps) == [type |-> "list", value |-> ps]

\* glob, given the listing the backend replies: the exception raised, the
\* list returned and the backend calls made
GlobResult(pattern_path, file_list) ==
  LET d         == Decode(pattern_path)
      base_path == d.url \o <<"/">> \o d.container \o <<"/">>
      ls        == <<Call(d.account_kind, "ls", base_path, file_list)>>
  IN  IF ~HasWildcard(pattern_path) \/ ~RootFolderMatches(d.file_path)
      THEN [err |-> "AzfsInputError", out |-> <<>>, calls |-> <<>>]
      ELSE IF GlobSupported(d.account_kind)
      THEN [err |-> "none", out |-> GlobFilter(pattern_path, base_path, file_list),
            calls |-> ls]
      ELSE [err |-> "NotImplementedError", out |-> <<>>, calls |-> ls]

\* the listings the backend may reply to glob: the names under the root
\* folder in any order; glob asks for none when it rejects the pattern
GlobListings(st, pattern_path) ==
  LET d == Decode(pattern_path)
  IN  IF HasWildcard(pattern_path) /\ RootFolderMatches(d.file_path)
      THEN Perms(BackendLs(st, d.account_kind, RootFolder(d.file_path)))
      ELSE {<<>>}

\* DataFrameReader._decode_path, given the listing a glob is replied
DecodePath(path, file_list) ==
  IF path.type = "None" THEN [err |-> "none", path |-> NonePath, calls |-> <<>>]
  ELSE IF path.type = "str"
  THEN IF Contains(path.value, "*")
       THEN LET g == GlobResult(path.value, file_list)
            IN  [err |-> g.err, path |-> ListPath(g.out), calls |-> g.calls]
       ELSE [err |-> "none", path |-> ListPath(<<path.value>>), calls |-> <<>>]
  ELSE [err |-> "none", path |-> path, calls |-> <<>>]

\* the formats DataFrameReader loads
FileFormats == {"csv", "parquet", "pickle"}

\* pd.read_csv, pq.read_table(...).to_pandas() and
\* pd.DataFrame(pickle.loads(gzip.decompress(...))) of the bytes of a file:
\* the first line of a csv is its header, the others are its rows; a pickle
\* is read as a gzip member
Frame(file_format, file_bytes) ==
  IF file_format = "csv"
  THEN IF file_bytes = <<>> THEN [err |-> "EmptyDataError", rows |-> <<>>]
       ELSE [err |-> "none", rows |-> Tail(file_bytes)]
  ELSE IF file_format = "pickle"
  THEN IF IsGzip(file_bytes) THEN [err |-> "none", rows |-> Gunzip(file_bytes)]
       ELSE [err |-> "BadGzipFile", rows |-> <<>>]
  ELSE [err |-> "none", rows |-> file_bytes]

\* read_csv, read_parquet, read_pickle: one _get of the path, then the codec
LoadFunction(st, file_format, path) ==
  LET g == GetOutcome(st, path, NotGiven, NotGiven)
      c == <<Call(Decode(path).account_kind, "get", path, <<>>)>>
  IN  IF g.err # "none" THEN [err |-> g.err, rows |-> <<>>, calls |-> c]
      ELSE [err |-> Frame(file_format, g.bytes).err,
            rows |-> Frame(file_format, g.bytes).rows, calls |-> c]

RECURSIVE LoadEach(_, _, _)
\* [load_function(f) for f in self.path]: the DataFrames of the paths, first
\* to last; the first exception ends it
LoadEach(st, file_format, paths) ==
  IF paths = <<>> THEN [err |-> "none", df_list |-> <<>>, calls |-> <<>>]
  ELSE LET f == LoadFunction(st, file_format, Head(paths))
           r == LoadEach(st, file_format, Tail(paths))
       IN  IF f.err # "none" THEN [err |-> f.err, df_list |-> <<>>, calls |-> f.calls]
           ELSE [err     |-> r.err,
                 df_list |-> IF r.err = "none" THEN <<f.rows>> \o r.df_list ELSE <<>>,
                 calls   |-> f.calls \o r.calls]

\* the list comprehension of _load walking the paths last to first
LoadEachReversed(st, file_format, paths) ==
  LoadEach(st, file_format, [i \in 1..Len(paths) |-> paths[Len(paths) + 1 - i]])

\* the DataFrames of the paths, in the order of the paths
LoadList(st, file_format, paths) == LoadEach(st, file_format, paths)

RECURSIVE Flatten(_)
Flatten(df_list) == IF df_list = <<>> THEN <<>> ELSE Head(df_list) \o Flatten(Tail(df_list))

\* pd.concat(df_list): the rows of the DataFrames, first to last; there is
\* nothing to concatenate in an empty list
Concat(df_list) ==
  IF df_list = <<>> THEN [err |-> "ValueError", rows |-> <<>>]
  ELSE [err |-> "none", rows |-> Flatten(df_list)]

\* DataFrameReader._load
Load(st, path, use_mp, file_format) ==
  IF path.type = "None" THEN [err |-> "AzfsInputError", rows |-> <<>>, calls |-> <<>>]
  ELSE IF use_mp THEN [err |-> "NotImplementedError", rows |-> <<>>, calls |-> <<>>]
  ELSE LET l == LoadList(st, file_format, path.value)
       IN  IF l.err # "none" THEN [err |-> l.err, rows |-> <<>>, calls |-> l.calls]
           ELSE [err   |-> Concat(l.df_list).err, rows |-> Concat(l.df_list).rows,
                 calls |-> l.calls]

\* the arguments of a read
ReadArg(path, mp, file_format) == [path |-> path, mp |-> mp, file_format |-> file_format]

\* azc.read(mp=mp).csv(path), .parquet(path), .pickle(path)
Read(path, mp, file_format) ==
  /\ \E file_list \in (IF path.type = "str" THEN GlobListings(store, path.value) ELSE {<<>>}) :
       LET p == DecodePath(path, file_list)
           l == Load(store, p.path, mp, file_format)
       IN  IF p.err # "none"
           THEN Returns("read", ReadArg(path, mp, file_format), p.err, "None", <<>>, p.calls)
           ELSE Returns("read", ReadArg(path, mp, file_format), l.err, "None", l.rows,
                        p.calls \o l.calls)
  /\ UNCHANGED store

ReadKeys == {<<"d", "/", "a">>, <<"d", "/", "b">>}

ReadPaths == {MkPath("blob", k) : k \in ReadKeys}

\* the patterns read: the files of the folder d, and a pattern glob rejects
ReadPatterns == {MkPath("blob", <<"d", "/", "*">>), MkPath("blob", <<"*">>)}

\* a csv of one row, another csv of one row, and a pickle
ReadPayloads == {<<0, 1>>, <<0, 2>>, Gzip(<<3>>)}

PathArgs ==
  {NonePath} \cup {StrPath(p) : p \in ReadPaths \cup ReadPatterns}
    \cup {ListPath(ps) : ps \in SeqsUpTo(ReadPaths, MaxPaths)}

\* the blob account holds none, one or both of the files
ReadStores ==
  {[EmptyStore EXCEPT !["blob"] = {<<k, File(f[k])>> : k \in S}] :
     S \in SUBSET ReadKeys, f \in [ReadKeys -> ReadPayloads]}

InitRead ==
  /\ store \in ReadStores
  /\ op = "idle"
  /\ arg = NoArg
  /\ err = "none"
  /\ ret = "None"
  /\ out = <<>>
  /\ calls = <<>>
  /\ attrs = [name \in Helpers |-> Unset]
  /\ sessions = <<>>
  /\ tasks = [t \in Callers |-> NoTask]

DoRead ==
  Idle /\ \E path \in PathArgs, mp \in BOOLEAN, file_format \in FileFormats :
            Read(path, mp, file_format)

NextRead == DoRead \/ Return

SpecRead == InitRead /\ [][NextRead]_vars

----------------------------------------------------------------------------
(* SpecChunk: read_csv_chunk over csv files of a header line and data      *)
(* lines.  The bytes of a file are the characters of its lines, one token  *)
(* per line, and the line feeds "\n" between and after them.               *)

\* the most lines of a file, and the largest chunk_size
MaxLines == 4

MaxChunk == 3

\* b"\n".join(byte_list)
Join(byte_list) ==
  [i \in 1..(2 * Len(byte_list) - 1) |-> IF i % 2 = 1 THEN byte_list[(i + 1) \div 2] ELSE "\n"]

RECURSIVE SplitLines(_)
\* the lines of file_bytes: what lies between its line feeds; a line feed at
\* the end of the file ends the last line and starts none
SplitLines(file_bytes) ==
  IF file_bytes = <<>> THEN <<>>
  ELSE LET i == IndexFrom(file_bytes, "\n", 1)
       IN  IF i = 0 THEN <<file_bytes>>
           ELSE <<SubSeq(file_bytes, 1, i - 1)>> \o SplitLines(SubSeq(file_bytes, i + 1, Len(file_bytes)))

\* a line of one token for each line of one token
OneToken(lines) == [i \in 1..Len(lines) |-> lines[i][1]]

\* TextReader(client, path): iterates over the lines of the file, first to
\* last, each without its line feed
TextReader(st, path) ==
  LET d == Decode(path)
  IN  IF BackendRaises(st, path) # "none" THEN [err |-> BackendRaises(st, path), lines |-> <<>>]
      ELSE [err   |-> "none",
            lines |-> OneToken(SplitLines(BackendGet(st, d.account_kind, d.file_path,
                                                     NotGiven, NotGiven)))]

\* pd.read_csv(io.BytesIO(file_to_read)): the first line is the header, every
\* other line a row; nothing can be parsed from no bytes
ReadCsvBytes(file_to_read) ==
  IF file_to_read = <<>> THEN [err |-> "EmptyDataError", rows |-> <<>>]
  ELSE [err |-> "none", rows |-> Tail(OneToken(SplitLines(file_to_read)))]

\* read_csv_chunk yielding at the first line of every chunk_size lines
ChunkFullAtFirst(idx, chunk_size) == idx % chunk_size = 0

\* read_csv_chunk: div_idx + 1 == chunk_size
ChunkFull(idx, chunk_size) == (idx % chunk_size) + 1 = chunk_size

\* read_csv_chunk starting the next chunk without the header
NextListEmpty(initial_line) == <<>>

\* read_csv_chunk: byte_list = [initial_line]
NextList(initial_line) == <<initial_line>>

RECURSIVE ChunkLoop(_, _, _, _, _)
\* the for-loop of read_csv_chunk from line idx on, and the remainder after
\* it: the byte_lists it makes DataFrames of, in yield order
ChunkLoop(lines, idx, chunk_size, initial_line, byte_list) ==
  IF idx = Len(lines) THEN <<byte_list>>
  ELSE LET l    == lines[idx + 1]
           init == IF idx = 0 THEN <<l>> ELSE initial_line
           bl   == Append(byte_list, l)
       IN  IF ChunkFull(idx, chunk_size)
           THEN <<bl>> \o ChunkLoop(lines, idx + 1, chunk_size, init, NextList(init[1]))
           ELSE ChunkLoop(lines, idx + 1, chunk_size, init, bl)

\* the DataFrames yielded for the byte_lists up to the first that cannot be
\* parsed: each with the byte_list it was parsed from
Yielded(byte_lists) ==
  LET bad == {i \in 1..Len(byte_lists) : ReadCsvBytes(Join(byte_lists[i])).err # "none"}
      n   == IF bad = {} THEN Len(byte_lists)
             ELSE (CHOOSE i \in bad : \A j \in bad : i <= j) - 1
  IN  [err    |-> IF bad = {} THEN "none" ELSE "EmptyDataError",
       frames |-> [i \in 1..n |-> [byte_list |-> byte_lists[i],
                                   df        |-> ReadCsvBytes(Join(byte_lists[i])).rows]]]

\* list(azc.read_csv_chunk(path, chunk_size)): the generator run to its end
ReadCsvChunk(path, chunk_size) ==
  LET t == TextReader(store, path)
      y == Yielded(ChunkLoop(t.lines, 0, chunk_size, <<>>, <<>>))
      a == [OnePath(path) EXCEPT !.length = chunk_size]
  IN  /\ IF t.err # "none"
         THEN Returns("read_csv_chunk", a, t.err, "None", <<>>, <<>>)
         ELSE Returns("read_csv_chunk", a, y.err, "None", y.frames, <<>>)
      /\ UNCHANGED store

\* the lines of the files: the header h and up to MaxLines - 1 data lines,
\* and the file of no line
ChunkFiles ==
  {<<>>} \cup {<<"h">> \o rows : rows \in SeqsUpTo({"1", "2"}, MaxLines - 1)}

\* a file ends with a line feed, or with its last line
ChunkPayloads ==
  {Join(lines) : lines \in ChunkFiles} \cup {Join(lines) \o <<"\n">> : lines \in ChunkFiles \ {<<>>}}

ChunkPaths == {MkPath(kind, <<"a">>) : kind \in Kinds}

InitChunk ==
  /\ store \in {EmptyStore} \cup
               {[EmptyStore EXCEPT ![kind] = {<<(<<"a">>), File(d)>>}] :
                  kind \in Kinds, d \in ChunkPayloads}
  /\ op = "idle"
  /\ arg = NoArg
  /\ err = "none"
  /\ ret = "None"
  /\ out = <<>>
  /\ calls = <<>>
  /\ attrs = [name \in Helpers |-> Unset]
  /\ sessions = <<>>
  /\ tasks = [t \in Callers |-> NoTask]

DoReadCsvChunk ==
  Idle /\ \E path \in ChunkPaths, chunk_size \in 1..MaxChunk : ReadCsvChunk(path, chunk_size)

NextChunk == DoReadCsvChunk \/ Return

SpecChunk == InitChunk /\ [][NextChunk]_vars

----------------------------------------------------------------------------
(* SpecRace: two callers put and cp at the same time, each call one        *)
(* request to the storage service after the other, while get and info      *)
(* look at the objects.  pc is where a call stands: cp at its exists, its  *)
(* get or its put; steps are the SDK calls its put has still to make.      *)

\* the longest payload put
MaxPayload == 2

RacePayloads == {[i \in 1..n |-> i] : n \in 1..MaxPayload}

RacePaths == {MkPath(kind, <<"a">>) : kind \in Kinds}

\* caller t begins AzFileClient._put: nothing is sent yet
PutStart(t, path, data) ==
  /\ tasks[t].op = "none"
  /\ tasks' = [tasks EXCEPT ![t] =
                 [NoTask EXCEPT !.op = "put", !.path = path, !.data = data, !.pc = "put",
                                !.steps = PutSteps(Decode(path).account_kind, data)]]
  /\ UNCHANGED <<store, op, arg, err, ret, out, calls, attrs, sessions>>

\* caller t begins AzFileClient.cp: src_path == dst_path raises at once, and
\* with overwrite=True exists is not called
CpStart(t, src_path, dst_path, overwrite) ==
  /\ tasks[t].op = "none"
  /\ tasks' = [tasks EXCEPT ![t] =
                 [NoTask EXCEPT !.op = "cp", !.path = src_path, !.dst = dst_path,
                                !.flag = overwrite,
                                !.pc = IF src_path = dst_path THEN "done"
                                       ELSE IF overwrite THEN "get" ELSE "exists",
                                !.err = IF src_path = dst_path THEN "AzfsInputError"
                                        ELSE "none"]]
  /\ UNCHANGED <<store, op, arg, err, ret, out, calls, attrs, sessions>>

\* cp: if (not overwrite) and self.exists(dst_path): raise AzfsInputError
CpExists(t) ==
  /\ tasks[t].op = "cp" /\ tasks[t].pc = "exists"
  /\ tasks' = [tasks EXCEPT ![t] =
                 IF ExistsValue(store, tasks[t].dst) = "True"
                 THEN [@ EXCEPT !.pc = "done", !.err = "AzfsInputError"]
                 ELSE [@ EXCEPT !.pc = "get"]]
  /\ UNCHANGED <<store, op, arg, err, ret, out, calls, attrs, sessions>>

\* cp: data = self._get(path=src_path)
CpGet(t) ==
  LET g == GetOutcome(store, tasks[t].path, NotGiven, NotGiven)
  IN  /\ tasks[t].op = "cp" /\ tasks[t].pc = "get"
      /\ tasks' = [tasks EXCEPT ![t] =
                     IF g.err # "none" THEN [@ EXCEPT !.pc = "done", !.err = g.err]
                     ELSE [@ EXCEPT !.pc = "put", !.data = g.bytes,
                                    !.steps = PutSteps(Decode(tasks[t].dst).account_kind,
                                                       g.bytes)]]
      /\ UNCHANGED <<store, op, arg, err, ret, out, calls, attrs, sessions>>

\* where the put of a call writes: cp puts to dst_path
PutPath(task) == IF task.op = "cp" THEN task.dst ELSE task.path

\* the next SDK call of the put of caller t (_put of the backend): one
\* request; an exception ends the call where it stands
SdkStep(t) ==
  LET d == Decode(PutPath(tasks[t]))
      c == Head(tasks[t].steps)
      e == SdkRaises(store, d.account_kind, d.file_path, c)
  IN  /\ tasks[t].pc = "put"
      /\ IF e # "none"
         THEN /\ tasks' = [tasks EXCEPT ![t] = [@ EXCEPT !.pc = "done", !.err = e]]
              /\ UNCHANGED store
         ELSE /\ store' = SdkApply(store, d.account_kind, d.file_path, c)
              /\ tasks' = [tasks EXCEPT ![t] =
                             [@ EXCEPT !.steps = Tail(@),
                                       !.pc = IF Len(tasks[t].steps) = 1 THEN "done"
                                              ELSE "put"]]
      /\ UNCHANGED <<op, arg, err, ret, out, calls, attrs, sessions>>

\* caller t takes the outcome of its call
Finish(t) ==
  /\ tasks[t].pc = "done"
  /\ tasks' = [tasks EXCEPT ![t] = NoTask]
  /\ UNCHANGED <<store, op, arg, err, ret, out, calls, attrs, sessions>>

InitRace ==
  /\ store \in {[kind \in Kinds |-> {<<(<<"a">>), File(f[kind])>> : x \in S[kind]}] :
                  S \in [Kinds -> SUBSET {1}], f \in [Kinds -> RacePayloads]}
  /\ op = "idle"
  /\ arg = NoArg
  /\ err = "none"
  /\ ret = "None"
  /\ out = <<>>
  /\ calls = <<>>
  /\ attrs = [name \in Helpers |-> Unset]
  /\ sessions = <<>>
  /\ tasks = [t \in Callers |-> NoTask]

DoPutStart == \E t \in Callers, p \in RacePaths, data \in RacePayloads : PutStart(t, p, data)

\* cp copies the file of the dfs account to the blob account
DoCpStart ==
  \E t \in Callers, overwrite \in BOOLEAN :
    CpStart(t, MkPath("dfs", <<"a">>), MkPath("blob", <<"a">>), overwrite)

DoCpExists == \E t \in Callers : CpExists(t)

DoCpGet == \E t \in Callers : CpGet(t)

DoSdkStep == \E t \in Callers : SdkStep(t)

DoFinish == \E t \in Callers : Finish(t)

\* a third caller looks at the file of the dfs account: get (one download)
\* or info
Observe ==
  Idle /\ (Get(MkPath("dfs", <<"a">>), NotGiven, NotGiven) \/ Info(MkPath("dfs", <<"a">>)))

NextRace ==
  DoPutStart \/ DoCpStart \/ DoCpExists \/ DoCpGet \/ DoSdkStep \/ DoFinish \/ Observe \/ Return

SpecRace == InitRace /\ [][NextRace]_vars

----------------------------------------------------------------------------
(* Claims *)

SlashCount(s) == Cardinality({i \in 1..Len(s) : s[i] = "/"})

\* the first segment of an object path
FirstSegment(file_path) ==
  IF IndexFrom(file_path, "/", 1) = 0 THEN file_path
  ELSE SubSeq(file_path, 1, IndexFrom(file_path, "/", 1) - 1)

\* the client a path's host marker stands for
ClientOfMarker(path) ==
  IF path[2] = ".blob." THEN "AzBlobClient" ELSE "AzDataLakeClient"

\* C1: every path glob returns matches the pattern with each `*` standing for
\* a run of characters free of `/`, so that no `*` reaches across a segment
\* boundary: a returned path has exactly as many segments as the pattern.
C1_StarStaysInSegment ==
  (op = "glob" /\ err = "none") =>
    \A i \in 1..Len(out) : SlashCount(out[i]) = SlashCount(arg.path)

\* C2: glob of a pattern without `*` raises AzfsInputError and returns no list,
\* on a blob and on a dfs path.
C2_NoWildcardIsInputError ==
  (op = "glob" /\ ~Contains(arg.path, "*")) =>
    (err = "AzfsInputError" /\ ret = "None" /\ out = <<>>)

C2_Witness ==
  /\ op = "glob"
  /\ ~Contains(arg.path, "*")
  /\ Decode(arg.path).account_kind = "dfs"
  /\ Decode(arg.path).file_path = <<"a", "/", "a", ".", "a">>
  /\ err = "AzfsInputError"

C4_InputErrorBeforeBackend ==
  [][((/\ op' = "glob"
       /\ \/ ~Contains(arg'.path, "*")
          \/ Contains(FirstSegment(Decode(arg'.path).file_path), "*"))
      \/ (op' = "cp" /\ arg'.path = arg'.dst))
     => (err' = "AzfsInputError" /\ calls' = <<>> /\ store' = store)]_vars

C4_Witness ==
  /\ op = "glob"
  /\ Contains(FirstSegment(Decode(arg.path).file_path), "*")
  /\ Decode(arg.path).account_kind \in Kinds
  /\ store[Decode(arg.path).account_kind] # {}
  /\ err = "AzfsInputError"
  /\ calls = <<>>

\* C5: every backend call of an ls, glob, get, put, rm, info or exists on a
\* path is made on the client of the path's host marker: the blob client for
\* `.blob.`, the data-lake client for `.dfs.`, never the other one.
C5_DispatchByMarker ==
  (/\ op \in {"ls", "glob", "get", "put", "rm", "info", "exists"}
   /\ arg.path[2] \in {".blob.", ".dfs."}) =>
    \A i \in 1..Len(calls) : calls[i].client = ClientOfMarker(arg.path)

C5_Witness ==
  /\ op = "rm"
  /\ arg.path[2] = ".dfs."
  /\ err = "none"
  /\ Len(calls) = 1
  /\ calls[1].client = "AzDataLakeClient"

\* ls: the folder a path names, without the closing `/`
LsDir(path) ==
  IF EndsWith(Decode(path).file_path, "/")
  THEN SubSeq(Decode(path).file_path, 1, Len(Decode(path).file_path) - 1)
  ELSE Decode(path).file_path

\* the listed key k lies under the folder dir
Under(k, dir) == dir = <<>> \/ (StartsWith(k, Append(dir, "/")) /\ Len(k) > Len(dir) + 1)

\* the name, relative to dir, ls shows for a key under dir: the bare name of
\* an object directly under dir, the first segment and a `/` of a deeper one
NameBelow(k, dir) ==
  LET below == IF dir = <<>> THEN k ELSE SubSeq(k, Len(dir) + 2, Len(k))
  IN  IF Contains(below, "/") THEN SubSeq(below, 1, IndexFrom(below, "/", 1)) ELSE below

\* the first position of the listing that shows as name n
FirstShown(listing, dir, n) ==
  CHOOSE i \in 1..Len(listing) :
    /\ NameBelow(listing[i], dir) = n
    /\ \A j \in 1..(i - 1) : NameBelow(listing[j], dir) # n

C7_AttachPrefix ==
  (op = "ls") =>
    LET names == ls_filter(calls[1].reply, Decode(arg.path).file_path)
    IN  IF arg.flag
        THEN /\ Len(out) = Len(names)
             /\ \A i \in 1..Len(out) :
                  out[i] = (IF arg.path[Len(arg.path)] = "/" THEN arg.path
                            ELSE arg.path \o <<"/">>) \o names[i]
        ELSE /\ out = names
             /\ \A i \in 1..Len(out) : ~Contains(out[i], Scheme)

C7_Witness ==
  /\ op = "ls"
  /\ arg.flag
  /\ arg.path = MkPath("dfs", <<"d", "/">>)
  /\ out = << MkPath("dfs", <<"d", "/", "b">>), MkPath("dfs", <<"d", "/", "a">>) >>

\* C8: exists(path) returns False when the stat of path raises
\* ResourceNotFoundError (nothing is stored at path) and True when the stat
\* succeeds, on both kinds of backend; exists changes no stored object.
C8_ExistsFollowsStat ==
  [][(op' = "exists") =>
       /\ err' = "none"
       /\ ret' = (IF Has(store, Decode(arg'.path).account_kind, Decode(arg'.path).file_path)
                  THEN "True" ELSE "False")
       /\ calls'[1].method = "info"
       /\ store' = store]_vars

C8_Witness ==
  /\ op = "exists"
  /\ arg.path[2] = ".dfs."
  /\ store["dfs"] # {}
  /\ ret = "False"

\* C9: isdir(path) and isfile(path) return False, and raise nothing, when the
\* stat of path raises ResourceNotFoundError.
C9_IsTypeFalseWhenNotFound ==
  (/\ op \in {"isdir", "isfile"}
   /\ ~Has(store, Decode(arg.path).account_kind, Decode(arg.path).file_path))
    => (err = "none" /\ ret = "False")

\* C10: cp(src, dst, overwrite=False) with src # dst and an object stored at
\* dst raises the error cp has for an existing destination, issues no get on
\* src and no put on dst, and leaves every stored object as it was.
C10_CpKeepsExistingDst ==
  [][(/\ op' = "cp"
      /\ ~arg'.flag
      /\ arg'.path # arg'.dst
      /\ Has(store, Decode(arg'.dst).account_kind, Decode(arg'.dst).file_path))
     => /\ err' = "AzfsInputError"
        /\ \A i \in 1..Len(calls') : calls'[i].method \notin {"get", "put"}
        /\ store' = store]_vars

C10_Witness ==
  /\ op = "cp"
  /\ ~arg.flag
  /\ arg.path = MkPath("blob", <<"a">>)
  /\ arg.dst = MkPath("dfs", <<"d", "/", "a">>)
  /\ Has(store, "blob", <<"a">>)
  /\ Has(store, "dfs", <<"d", "/", "a">>)
  /\ Object(store, "blob", <<"a">>).data # Object(store, "dfs", <<"d", "/", "a">>).data
  /\ err = "AzfsInputError"

\* the object stored at a path
Stored(st, path) == Object(st, Decode(path).account_kind, Decode(path).file_path)

StoredAt(st, path) == Has(st, Decode(path).account_kind, Decode(path).file_path)

\* the path ends in `.gz`
GzSuffix(path) ==
  /\ Len(path) >= 3
  /\ path[Len(path) - 2] = "."
  /\ path[Len(path) - 1] = "g"
  /\ path[Len(path)] = "z"

\* C11: a cp(src, dst, overwrite=True) with src # dst that succeeds leaves at
\* dst the very bytes stored at src and leaves src as it was, for every pair of
\* paths, those ending in `.gz` among them, on both kinds of backend.
C11_CpCopiesBytes ==
  [][(op' = "cp" /\ arg'.flag /\ arg'.path # arg'.dst /\ err' = "none") =>
       /\ StoredAt(store', arg'.dst)
       /\ Stored(store', arg'.dst).data = Stored(store, arg'.path).data
       /\ Stored(store', arg'.path) = Stored(store, arg'.path)]_vars

\* C12 as stated: on every path and for every payload, put(path, data) stores
\* data and a get(path) of what is stored (no write since) returns exactly it.
C12_RoundTripEveryPath ==
  /\ (op = "put") =>
       (err = "none" /\ StoredAt(store, arg.path) /\ Stored(store, arg.path).data = arg.data)
  /\ (op = "get" /\ StoredAt(store, arg.path)) =>
       (err = "none" /\ out = Stored(store, arg.path).data)

\* C12 amended: on every path and for every payload, on both kinds of backend,
\* put(path, data) returns True having stored exactly data, nothing left
\* unflushed; on every path that does not end in `.gz`, a get(path) of what is
\* stored (no write since) returns exactly it.
C12_RoundTrip ==
  /\ (op = "put") =>
       /\ err = "none"
       /\ ret = "True"
       /\ StoredAt(store, arg.path)
       /\ Stored(store, arg.path).data = arg.data
       /\ Stored(store, arg.path).appended = <<>>
  /\ (op = "get" /\ StoredAt(store, arg.path) /\ ~GzSuffix(arg.path)) =>
       (err = "none" /\ out = Stored(store, arg.path).data)

C12_Witness ==
  /\ op = "get"
  /\ arg.path = MkPath("dfs", <<"a">>)
  /\ StoredAt(store, MkPath("blob", <<"a">>))
  /\ Stored(store, MkPath("blob", <<"a">>)).data = <<1, 2>>
  /\ out = Gzip(<<1>>)

\* C13: rm(path) of a stored object returns True and removes it, and only it;
\* rm(path) with nothing stored at path (so a second rm with no put or cp to
\* path since the first) raises the backend's ResourceNotFoundError to the
\* caller, returns neither True nor False and changes nothing; a path that
\* holds nothing holds nothing until a put or a cp; on both kinds of backend.
C13_RmTwice ==
  [][/\ (op' = "rm") =>
          IF StoredAt(store, arg'.path)
          THEN /\ err' = "none"
               /\ ret' = "True"
               /\ ~StoredAt(store', arg'.path)
               /\ \A kind \in Kinds :
                    store'[kind] =
                      {e \in store[kind] : ~(kind = Decode(arg'.path).account_kind
                                             /\ e[1] = Decode(arg'.path).file_path)}
          ELSE /\ err' = "ResourceNotFoundError"
               /\ ret' = "None"
               /\ store' = store
     /\ \A p \in DataPaths :
          (~StoredAt(store, p) /\ op' \notin {"put", "cp"}) => ~StoredAt(store', p)]_vars

C13_Witness ==
  /\ op = "rm"
  /\ arg.path = MkPath("dfs", <<"a">>)
  /\ err = "ResourceNotFoundError"
  /\ store["dfs"] = {}
  /\ store["blob"] # {}

\* the calls made on the client of the file, those that construct it left out
FileClientCalls(trace) ==
  SelectSeq(trace, LAMBDA c : c.call \in {"create_file", "append_data", "flush_data",
                                          "upload_blob", "download_blob", "download_file",
                                          "get_blob_properties", "get_file_properties",
                                          "delete_blob", "delete_file"})

\* C14: a put(path, data) on a dfs path that returns True has made, on the
\* file client of path, create_file, then append_data(data, offset=0,
\* length=len(data)), then flush_data(len(data)), each once, in this order
\* and nothing else; when True is returned the flush is done: data is stored
\* and nothing is left unflushed.
C14_CreateAppendFlush ==
  (op = "put" /\ arg.path[2] = ".dfs." /\ ret = "True") =>
    /\ FileClientCalls(SdkTrace(calls)) =
         << [call |-> "create_file", data |-> <<>>, offset |-> 0, length |-> 0],
            [call |-> "append_data", data |-> arg.data, offset |-> 0,
             length |-> Len(arg.data)],
            [call |-> "flush_data", data |-> <<>>, offset |-> Len(arg.data), length |-> 0] >>
    /\ StoredAt(store, arg.path)
    /\ Stored(store, arg.path).data = arg.data
    /\ Stored(store, arg.path).appended = <<>>

C14_Witness ==
  /\ op = "put"
  /\ arg.path = MkPath("dfs", <<"a">>)
  /\ arg.data = <<1, 2>>
  /\ ret = "True"
  /\ StoredAt(store, arg.path)
  /\ Stored(store, arg.path).data = <<1, 2>>

\* C15: info(path)["type"] is "directory" exactly when path is a dfs path and
\* the metadata of the object carries hdi_isfolder; on a blob path it is never
\* "directory", whatever the metadata: it is "file" when the content type is
\* not None and "" otherwise.
C15_DirectoryOnlyOnDfs ==
  (op = "info" /\ err = "none") =>
    /\ (ret = "directory") <=>
         (arg.path[2] = ".dfs." /\ Stored(store, arg.path).hdi_isfolder)
    /\ (arg.path[2] = ".blob.") =>
         ret = (IF Stored(store, arg.path).content_type # "None" THEN "file" ELSE "")

\* C16: get(path, offset, length) returns exactly the length bytes of the
\* stored object that start at byte offset (asked within the object), and the
\* whole object when neither is given, on both kinds of backend (paths that
\* do not end in `.gz`, where nothing is decompressed).
C16_GetReturnsRange ==
  (op = "get" /\ StoredAt(store, arg.path) /\ ~GzSuffix(arg.path)) =>
    LET data == Stored(store, arg.path).data
    IN  /\ err = "none"
        /\ (arg.offset = NotGiven /\ arg.length = NotGiven) => out = data
        /\ (/\ arg.offset # NotGiven
            /\ arg.length >= 1
            /\ arg.offset + arg.length <= Len(data)) =>
             out = SubSeq(data, arg.offset + 1, arg.offset + arg.length)

PassesGlobChecks(file_path) ==
  /\ \E i \in 1..Len(file_path) : file_path[i] = "*"
  /\ \E i \in 2..Len(file_path) :
       /\ file_path[i] = "/"
       /\ \A j \in 1..(i - 1) : file_path[j] # "*" /\ file_path[j] # "."

Constructed(trace, client) ==
  Cardinality({i \in 1..Len(trace) : trace[i].call = ServiceClient(client)})

\* C18: over the backend calls the client makes, at most one service client
\* (BlobServiceClient, DataLakeServiceClient) is constructed for each kind of
\* backend: none is constructed anew for a call.
C18_OneServiceClientPerKind ==
  \A client \in {"AzBlobClient", "AzDataLakeClient"} :
    Constructed(SdkTrace(calls), client) <= 1

\* C19: get(path) of a stored object returns the gzip-decompressed bytes
\* exactly when path ends in `.gz`: what is stored there is then the gzip
\* member of what get returns (and get raises BadGzipFile when the stored
\* bytes are no gzip member); for every other path get returns the stored
\* bytes as they are; whatever the kind of backend and the content type.
C19_GunzipIffGzSuffix ==
  (op = "get" /\ StoredAt(store, arg.path)) =>
    LET data == Stored(store, arg.path).data
    IN  IF GzSuffix(arg.path)
        THEN /\ err \in {"none", "BadGzipFile"}
             /\ (err = "none") => data = Gzip(out)
             /\ \A d \in Payloads : (data = Gzip(d)) => (err = "none" /\ out = d)
        ELSE err = "none" /\ out = data

C19_Witness ==
  /\ op = "get"
  /\ arg.path = MkPath("blob", <<"a", ".", "g", "z">>)
  /\ StoredAt(store, arg.path)
  /\ Stored(store, arg.path) = Untyped(Gzip(<<1>>))
  /\ err = "none"
  /\ out = <<1>>

\* C20: while a session is open every registered helper is the function that
\* calls the method it was registered for on the client that entered the
\* session (the one entered last), and a helper called then runs that
\* method; when a session has ended, at the end of its block or by an
\* exception, every registered helper is None.
C20_HelpersFollowSession ==
  /\ (sessions # <<>>) =>
       \A name \in Helpers :
         attrs[name] = [state |-> "function", client |-> sessions[Len(sessions)],
                        method |-> Registered(name).function]
  /\ (sessions # <<>> /\ arg.helper # "") =>
       /\ err = "none"
       /\ op = Registered(arg.helper).function
       /\ arg.self = sessions[Len(sessions)]
  /\ (op = "__exit__") => \A name \in Helpers : attrs[name].state = "None"

\* the get calls among the backend calls of a trace
GetCalls(trace) == SelectSeq(trace, LAMBDA c : c.method = "get")

\* the paths a read walks: the list given, the one path given, or what glob
\* made of the listing it was replied (the first backend call of the read)
PathsRead ==
  IF arg.path.type = "list" THEN arg.path.value
  ELSE IF ~Contains(arg.path.value, "*") THEN <<arg.path.value>>
  ELSE IF calls = <<>> \/ calls[1].method # "ls" THEN <<>>
  ELSE GlobFilter(arg.path.value, calls[1].path, calls[1].reply)

\* the rows of the file at a path, read in the format of the read
RowsOf(path) == Frame(arg.file_format, GetOutcome(store, path, NotGiven, NotGiven).bytes).rows

\* C21: a read over several paths issues one get per path, in the order of the
\* paths, and returns the rows of the files in that order; a get that fails
\* ends the read at its path; with mp=True the read raises
\* NotImplementedError (or the error of its path argument) and issues no get
C21_ReadsInPathOrder ==
  (op = "read" /\ arg.path.type # "None") =>
    LET gets == GetCalls(calls)
    IN  /\ arg.mp => (err # "none" /\ gets = <<>>)
        /\ (arg.mp /\ err \notin {"AzfsInputError"}) => err = "NotImplementedError"
        /\ ~arg.mp =>
             /\ Len(gets) <= Len(PathsRead)
             /\ \A i \in 1..Len(gets) : gets[i].path = PathsRead[i]
             /\ err \in {"none", "ValueError"} => Len(gets) = Len(PathsRead)
             /\ err = "none" =>
                  out = Flatten([i \in 1..Len(PathsRead) |-> RowsOf(PathsRead[i])])

\* a read of two different files returned the rows of both
C21_Witness ==
  /\ op = "read" /\ ~arg.mp /\ err = "none"
  /\ arg.path.type = "list" /\ Len(arg.path.value) = 2
  /\ arg.path.value[1] # arg.path.value[2]
  /\ Len(GetCalls(calls)) = 2
  /\ Len(out) = 2 /\ out[1] # out[2]

\* the lines of the file a read_csv_chunk read
LinesRead == TextReader(store, arg.path).lines

\* read_csv_chunk returned the DataFrames of a file that has a header line
ChunksRead == op = "read_csv_chunk" /\ err = "none" /\ LinesRead # <<>>

C30_ChunksCoverFile ==
  ChunksRead =>
    /\ \A i \in 1..Len(out) : out[i].byte_list # <<>> /\ Head(out[i].byte_list) = Head(LinesRead)
    /\ Flatten([i \in 1..Len(out) |-> Tail(out[i].byte_list)]) = Tail(LinesRead)
    /\ Flatten([i \in 1..Len(out) |-> out[i].df]) = Tail(LinesRead)

\* three data lines read in chunks of two: the second chunk starts at the
\* second data line
C30_Witness ==
  /\ ChunksRead /\ arg.length = 2 /\ Len(LinesRead) = 4
  /\ Len(out) = 3
  /\ out[2].byte_list = <<LinesRead[1], LinesRead[3], LinesRead[4]>>
  /\ LinesRead[2] # LinesRead[3]

RECURSIVE LiteralMatch(_, _)
\* f equals the pattern character for character, but for each `*`, which
\* stands for a run of characters other than `/`
LiteralMatch(pattern, f) ==
  IF pattern = <<>> THEN f = <<>>
  ELSE IF Head(pattern) = "*"
       THEN \/ LiteralMatch(Tail(pattern), f)
            \/ f # <<>> /\ Head(f) # "/" /\ LiteralMatch(pattern, Tail(f))
       ELSE f # <<>> /\ Head(pattern) = Head(f) /\ LiteralMatch(Tail(pattern), Tail(f))

\* glob returned a list: its one backend call is the listing
GlobListed == op = "glob" /\ err = "none" /\ Len(calls) = 1 /\ calls[1].method = "ls"

\* C23: glob returns, in listing order and with nothing added, the absolute
\* paths of the listed entries that equal the pattern character for character
\* but for each `*`; a `.` of the pattern matches a `.` only
C23_GlobMatchesLiterally ==
  GlobListed =>
    out = SelectSeq([i \in 1..Len(calls[1].reply) |-> calls[1].path \o calls[1].reply[i]],
                    LAMBDA f : LiteralMatch(arg.path, f))

\* the segments of an object path after the first hold a `*`
StarAfterFirstSegment(file_path) ==
  LET i == IndexFrom(file_path, "/", 1)
  IN  i # 0 /\ Contains(SubSeq(file_path, i + 1, Len(file_path)), "*")

\* C24: glob accepts every pattern whose first segment is free of `*` and is
\* followed by a segment that holds a `*`, a first segment that holds a `.`
\* included: it raises no input error and asks the backend for the listing
C24_RootFolderMayHoldDot ==
  (/\ op = "glob"
   /\ ~Contains(FirstSegment(Decode(arg.path).file_path), "*")
   /\ StarAfterFirstSegment(Decode(arg.path).file_path)) =>
     (err = "none" /\ Len(calls) = 1)

\* C25: glob leaves out no stored object that matches the pattern: the prefix
\* it lists under is free of `*`, ends where a segment ends and is a prefix of
\* the pattern, so the listing holds every stored object whose path equals the
\* pattern but for each `*`, and glob returns it, on blob and on dfs
C25_GlobOmitsNoMatch ==
  GlobListed =>
    LET d    == Decode(arg.path)
        root == RootFolder(d.file_path)
    IN  /\ ~Contains(root, "*")
        /\ StartsWith(d.file_path, root \o <<"/">>)
        /\ \A k \in Names(store, d.account_kind) :
             LiteralMatch(arg.path, MkPath(d.account_kind, k)) =>
               /\ \E i \in 1..Len(calls[1].reply) : calls[1].reply[i] = k
               /\ \E i \in 1..Len(out) : out[i] = MkPath(d.account_kind, k)

\* a pattern of three segments returned an object two folders below the
\* container of a dfs account
C25_Witness ==
  /\ GlobListed
  /\ Decode(arg.path).account_kind = "dfs"
  /\ SlashCount(Decode(arg.path).file_path) = 2
  /\ RootFolder(Decode(arg.path).file_path) = <<"a">>
  /\ out # <<>>
  /\ LiteralMatch(arg.path, out[1])

\* C26: while a session is open, every registered helper is attached and
\* callable, whatever sessions were entered or left in between
C26_HelpersStayAttached ==
  (sessions # <<>>) => \A name \in Helpers : attrs[name].state = "function"

\* C29: a glob on a queue path that fails as unsupported has made no backend
\* call
C29_QueueGlobMakesNoCall ==
  (op = "glob" /\ arg.path[2] = ".queue." /\ err = "NotImplementedError") => calls = <<>>

\* C27: the put of a cp with overwrite=False replaces the content of no object
\* that is stored at dst when the put is made, whatever other callers put to
\* dst after cp called exists
C27_CpNeverReplaces ==
  [][\A t \in Callers :
       (/\ tasks[t].op = "cp" /\ ~tasks[t].flag /\ tasks[t].pc = "put"
        /\ tasks'[t] # tasks[t]
        /\ StoredAt(store, tasks[t].dst))
         => Stored(store', tasks[t].dst).data = Stored(store, tasks[t].dst).data]_vars

\* the put of caller t to the dfs path has made its create_file and not yet
\* its flush_data
MidPut(t, path) ==
  /\ tasks[t].op = "put" /\ tasks[t].pc = "put"
  /\ tasks[t].path = path
  /\ Decode(path).account_kind = "dfs"
  /\ Len(tasks[t].steps) \in {1, 2}

\* a get or an info made while a put to its path stands between create and
\* flush finds the whole payload of some put there, not a file of no byte or
\* of a part of the bytes
SeenWhole ==
  (/\ op = "idle" /\ op' \in {"get", "info"} /\ err' = "none"
   /\ \E t \in Callers : MidPut(t, arg'.path))
    => /\ Stored(store, arg'.path).data \in RacePayloads
       /\ op' = "get" => out' \in RacePayloads

\* both callers have ended a put to one dfs path: the file holds the whole
\* payload of one of the two
OneWins ==
  (/\ \A t \in Callers : tasks[t].op = "put" /\ tasks[t].pc = "done"
   /\ tasks["t1"].path = tasks["t2"].path
   /\ Decode(tasks["t1"].path).account_kind = "dfs")
    => /\ StoredAt(store, tasks["t1"].path)
       /\ Stored(store, tasks["t1"].path).data \in {tasks["t1"].data, tasks["t2"].data}

\* C28: a put to a dfs path is atomic for the callers that run beside it: no
\* get or info between its create and its flush finds the file with no byte
\* or with a part of the payload, and after two puts to one path the file
\* holds the whole payload of one of them
C28_PutIsAtomic == [][SeenWhole /\ OneWins']_vars

====
